---- MODULE Spec2Model ----
(***************************************************************************)
(* The Blender block-model exporter (modelexporter.py): a script that      *)
(* walks the faces of the active mesh, builds a table of texture names and *)
(* a list of quads, serialises both as one JSON document and writes it to  *)
(* <PATH><object name>.json.                                               *)
(*                                                                         *)
(* The client and the core variant of the script are the same program up   *)
(* to the include_normals option (the core variant always includes the     *)
(* normals); the model follows the client variant and draws the option in  *)
(* Init.                                                                   *)
(*                                                                         *)
(* Numbers are fixed-point decimals: an integer v stands for v / Unit,     *)
(* with one decimal digit more than the finest rounding of the script.     *)
(* Python's 0-based indices are kept in the data (face.vertices,           *)
(* TextureId, ...) and shifted by one only where a TLA+ sequence is read.  *)
(***************************************************************************)
EXTENDS Integers, Sequences, FiniteSets

\* Longest face list of a mesh the model explores.
MaxFaces == 3

\* round(co.x, 5): digits kept of a position component.
PosDigits == 5
\* round(abs(1 - uv.x), 4): digits kept of a texture coordinate.
UvDigits == 4
\* round(nm.x, 4): digits kept of a normal component.
NormalDigits == 4

RECURSIVE Pow10(_)
Pow10(n) == IF n = 0 THEN 1 ELSE 10 * Pow10(n - 1)

\* The integer that stands for 1.0.
Unit == Pow10(PosDigits + 1)

Abs(v) == IF v < 0 THEN 0 - v ELSE v

\* Python's round(v, ndigits): the closest multiple of 10^-ndigits, a tie
\* going to the even multiple.
Round(v, ndigits) ==
    LET q     == Pow10(PosDigits + 1 - ndigits)
        lower == (v \div q) * q
        r     == v - lower
    IN  IF 2 * r < q THEN lower
        ELSE IF 2 * r > q THEN lower + q
        ELSE IF (lower \div q) % 2 = 0 THEN lower ELSE lower + q

-----------------------------------------------------------------------------
(* The host's data: what bpy hands to the script. *)

Vec3(a, b, c) == [x |-> a, y |-> b, z |-> c]
Vec2(a, b) == [x |-> a, y |-> b]

\* A material slot holding no material (mat is None), and one holding a
\* material with a name.
None == [assigned |-> FALSE, name |-> ""]
Material(n) == [assigned |-> TRUE, name |-> n]

\* obj.material_slots: two slots hold materials of the same name, one slot is
\* empty, one material is itself called "none".
MaterialSlots ==
    << Material("stone"), None, Material("wood"), Material("stone"),
       Material("none") >>

\* mesh.vertices[i].co, for i = 0..5: the corners of the unit square in the
\* x-z plane, and positions with a sixth decimal digit (ties included).
MeshVertices ==
    << Vec3(0, 0, 0), Vec3(1000000, 0, 0), Vec3(1000000, 0, 1000000),
       Vec3(0, 0, 1000000), Vec3(123456, -654321, 5),
       Vec3(-1000015, 250025, -999995) >>

\* mesh.uv_layers.active.data[i].uv, for i = 0..7, of two UV layers; both
\* hold coordinates outside [0, 1] and coordinates finer than four digits.
UvLayerA ==
    << Vec2(0, 0), Vec2(1000000, 0), Vec2(1000000, 1000000), Vec2(0, 1000000),
       Vec2(1500000, 250000), Vec2(-500000, 2000000), Vec2(333350, 666650),
       Vec2(123449, 999951) >>
UvLayerB ==
    << Vec2(250000, 750000), Vec2(999960, 40), Vec2(50, 999950),
       Vec2(1000040, -40), Vec2(2000000, -1000000), Vec2(500000, 500000),
       Vec2(999949, 51), Vec2(1, 999999) >>

\* mesh.uv_layers.active: a layer, or None when the mesh has no UV layer.
NoLayer == [present |-> FALSE, data |-> << >>]
Layer(d) == [present |-> TRUE, data |-> d]
UvLayers == {NoLayer, Layer(UvLayerA), Layer(UvLayerB)}

Face(vs, ls, m, n) ==
    [vertices |-> vs, loop_indices |-> ls, material_index |-> m, normal |-> n]

\* The faces a mesh is drawn from: quads of every slot (one past the last
\* slot included), a triangle, a pentagon, and quads whose loop list is
\* longer or shorter than their vertex list.
FaceSet ==
    { Face(<<0, 1, 2, 3>>, <<0, 1, 2, 3>>, 0, Vec3(0, -1000000, 0)),
      Face(<<3, 2, 1, 4>>, <<4, 5, 6, 7>>, 1, Vec3(0, 0, 1000000)),
      Face(<<5, 4, 0, 2>>, <<7, 3, 5, 1>>, 2, Vec3(577350, -577351, 577349)),
      Face(<<1, 5, 3, 4>>, <<2, 6, 0, 4>>, 3, Vec3(123450, 707107, -696350)),
      Face(<<4, 5, 1, 0>>, <<6, 7, 4, 5>>, 4, Vec3(-1000000, 0, 0)),
      Face(<<2, 3, 0, 1>>, <<3, 2, 1, 0>>, 5, Vec3(0, 1000000, 0)),
      Face(<<0, 1, 2>>, <<0, 1, 2>>, 2, Vec3(0, 0, -1000000)),
      Face(<<0, 1, 2, 3, 4>>, <<0, 1, 2, 3, 4>>, 0, Vec3(0, 1000000, 0)),
      Face(<<0, 1, 2, 3>>, <<0, 1, 2, 3, 4>>, 2, Vec3(1000000, 0, 0)),
      Face(<<0, 1, 2, 3>>, <<0, 1, 2>>, 0, Vec3(0, 0, 1000000)) }

Meshes == UNION { [1..n -> FaceSet] : n \in 0..MaxFaces }

-----------------------------------------------------------------------------
(* The script's classes and the expressions of its loop body. *)

\* Vertex.__init__ with the y and z axes left as they are.
VertexNoSwap(co, uv, nm, normals) ==
    [ X |-> Round(co.x, PosDigits),
      Y |-> Round(co.y, PosDigits),
      Z |-> Round(co.z, PosDigits),
      U |-> Round(Abs(Unit - uv.x), UvDigits),
      V |-> Round(uv.y, UvDigits),
      N |-> IF normals THEN Round(nm.x, NormalDigits) ELSE 0,
      O |-> IF normals THEN Round(nm.z, NormalDigits) ELSE 0,
      P |-> IF normals THEN Round(nm.y, NormalDigits) ELSE 0 ]

\* Vertex.__init__ with the abs() of the U coordinate left out.
VertexNoAbs(co, uv, nm, normals) ==
    [ X |-> Round(co.x, PosDigits),
      Y |-> Round(co.z, PosDigits),
      Z |-> Round(co.y, PosDigits),
      U |-> Round(Unit - uv.x, UvDigits),
      V |-> Round(uv.y, UvDigits),
      N |-> IF normals THEN Round(nm.x, NormalDigits) ELSE 0,
      O |-> IF normals THEN Round(nm.z, NormalDigits) ELSE 0,
      P |-> IF normals THEN Round(nm.y, NormalDigits) ELSE 0 ]

\* Vertex.__init__; normals is the include_normals option.
Vertex(co, uv, nm, normals) ==
    [ X |-> Round(co.x, PosDigits),
      Y |-> Round(co.z, PosDigits),
      Z |-> Round(co.y, PosDigits),
      U |-> Round(Abs(Unit - uv.x), UvDigits),
      V |-> Round(uv.y, UvDigits),
      N |-> IF normals THEN Round(nm.x, NormalDigits) ELSE 0,
      O |-> IF normals THEN Round(nm.z, NormalDigits) ELSE 0,
      P |-> IF normals THEN Round(nm.y, NormalDigits) ELSE 0 ]

\* Quad.__init__: verts[0..3]; it raises IndexError on a shorter list (the
\* caller's guard), and ignores what follows the fourth element.
Quad(tex_id, verts) ==
    [ TextureId |-> tex_id, Vert0 |-> verts[1], Vert1 |-> verts[2],
      Vert2 |-> verts[3], Vert3 |-> verts[4] ]

\* Model.__init__, and what json.dumps makes of it through ModelEncoder:
\* the fields of the object under their own names.
Model(names, qs) == [TextureNames |-> names, Quads |-> qs]

Elems(s) == { s[i] : i \in 1..Len(s) }

\* matName: the name of the material, or "none" for an empty slot.
MatName(mat) == IF mat.assigned THEN mat.name ELSE "none"

\* The insertion with the membership test left out.
AlwaysAppend(names, matName) == Append(names, matName)

\* if matName not in tex_names: tex_names.append(matName)
AppendIfMissing(names, matName) ==
    IF matName \in Elems(names) THEN names ELSE Append(names, matName)

\* The index of the last name, as if matName had just been appended.
LastIndex(names, matName) == Len(names) - 1

\* tex_names.index(matName): the 0-based index of the first occurrence.
Index(names, matName) ==
    (CHOOSE i \in 1..Len(names) :
        /\ names[i] = matName
        /\ \A j \in 1..(i - 1) : names[j] # matName) - 1

Min(a, b) == IF a < b THEN a ELSE b

\* zip(face.vertices, face.loop_indices): as many pairs as the shorter list.
Zip(vs, ls) == [k \in 1..Min(Len(vs), Len(ls)) |-> <<vs[k], ls[k]>>]

-----------------------------------------------------------------------------
VARIABLES
    polygons,        \* mesh.polygons
    uv_active,       \* mesh.uv_layers.active
    include_normals, \* the option of the script
    face_i,          \* how many faces the for loop has taken
    tex_names,       \* tex_names
    quads,           \* quads
    json,            \* the serialised document (before dumps: the empty model)
    disk,            \* the file at PATH + obj.name + ".json"
    file,            \* the file object: "none", "open" or "closed"
    pc,              \* where the script is
    error            \* the exception that ended the script, or "none"

vars == << polygons, uv_active, include_normals, face_i, tex_names, quads,
           json, disk, file, pc, error >>

mesh == << polygons, uv_active, include_normals >>

Init ==
    /\ polygons \in Meshes
    /\ uv_active \in UvLayers
    /\ include_normals \in BOOLEAN
    /\ face_i = 0
    /\ tex_names = << >>
    /\ quads = << >>
    /\ json = Model(<< >>, << >>)
    /\ disk \in {"absent", "old"}
    /\ file = "none"
    /\ pc = "loop"
    /\ error = "none"

\* The face the for loop takes next.
NextFace == polygons[face_i + 1]

\* The verts list of the face: one Vertex per pair of the zip.
Verts(face) ==
    [ k \in 1..Len(Zip(face.vertices, face.loop_indices)) |->
        Vertex(MeshVertices[Zip(face.vertices, face.loop_indices)[k][1] + 1],
               uv_active.data[Zip(face.vertices, face.loop_indices)[k][2] + 1],
               face.normal, include_normals) ]

\* The exception the loop body raises on a quad face, or "none".
\*   material_slots[face.material_index]   IndexError past the last slot
\*   mesh.uv_layers.active.data            AttributeError on None, at the
\*                                         first pair of the zip
\*   verts[3] in Quad.__init__             IndexError on fewer than 4 pairs
Raised(face) ==
    IF face.material_index >= Len(MaterialSlots) THEN "IndexError"
    ELSE IF Len(Zip(face.vertices, face.loop_indices)) > 0
            /\ ~uv_active.present THEN "AttributeError"
    ELSE IF Len(Zip(face.vertices, face.loop_indices)) < 4 THEN "IndexError"
    ELSE "none"

\* A face that is no quad: continue.
SkipFace ==
    /\ pc = "loop"
    /\ face_i < Len(polygons)
    /\ Len(NextFace.vertices) # 4
    /\ face_i' = face_i + 1
    /\ UNCHANGED << mesh, tex_names, quads, json, disk, file, pc, error >>

\* A quad face on which the loop body raises: the script ends there. The
\* name is in tex_names already unless the slot lookup raised.
FaceRaises ==
    /\ pc = "loop"
    /\ face_i < Len(polygons)
    /\ Len(NextFace.vertices) = 4
    /\ Raised(NextFace) # "none"
    /\ face_i' = face_i + 1
    /\ tex_names' =
         IF NextFace.material_index >= Len(MaterialSlots) THEN tex_names
         ELSE AppendIfMissing(tex_names,
                 MatName(MaterialSlots[NextFace.material_index + 1]))
    /\ pc' = "failed"
    /\ error' = Raised(NextFace)
    /\ UNCHANGED << mesh, quads, json, disk, file >>

\* A quad face: its name is looked up or inserted, its quad is appended.
EmitQuad ==
    /\ pc = "loop"
    /\ face_i < Len(polygons)
    /\ Len(NextFace.vertices) = 4
    /\ Raised(NextFace) = "none"
    /\ face_i' = face_i + 1
    /\ LET matName == MatName(MaterialSlots[NextFace.material_index + 1])
           names   == AppendIfMissing(tex_names, matName)
       IN  /\ tex_names' = names
           /\ quads' = Append(quads,
                          Quad(Index(names, matName), Verts(NextFace)))
    /\ UNCHANGED << mesh, json, disk, file, pc, error >>

\* After the loop: model = Model(tex_names, quads); json = json.dumps(model).
Serialize ==
    /\ pc = "loop"
    /\ face_i = Len(polygons)
    /\ json' = Model(tex_names, quads)
    /\ pc' = "open"
    /\ UNCHANGED << mesh, face_i, tex_names, quads, disk, file, error >>

\* open(path, "w+"): the file is created, or cut to nothing.
OpenFile ==
    /\ pc = "open"
    /\ disk' = "empty"
    /\ file' = "open"
    /\ pc' = "write"
    /\ UNCHANGED << mesh, face_i, tex_names, quads, json, error >>

\* open(path, "w+") raises: the directory is missing or not writable.
OpenRaises ==
    /\ pc = "open"
    /\ pc' = "failed"
    /\ error' = "OSError"
    /\ UNCHANGED << mesh, face_i, tex_names, quads, json, disk, file >>

\* file.write(json)
WriteFile ==
    /\ pc = "write"
    /\ disk' = "complete"
    /\ pc' = "close"
    /\ UNCHANGED << mesh, face_i, tex_names, quads, json, file, error >>

\* file.write(json) raises (the disk is full, the device fails): nothing or
\* a part of the document is in the file, and file.close() is not reached.
WriteRaises ==
    /\ pc = "write"
    /\ \E left \in {"empty", "partial"} : disk' = left
    /\ pc' = "failed"
    /\ error' = "OSError"
    /\ UNCHANGED << mesh, face_i, tex_names, quads, json, file >>

\* file.close()
CloseFile ==
    /\ pc = "close"
    /\ file' = "closed"
    /\ pc' = "done"
    /\ UNCHANGED << mesh, face_i, tex_names, quads, json, disk, error >>

Next ==
    \/ SkipFace
    \/ FaceRaises
    \/ EmitQuad
    \/ Serialize
    \/ OpenFile
    \/ OpenRaises
    \/ WriteFile
    \/ WriteRaises
    \/ CloseFile

Spec == Init /\ [][Next]_vars

-----------------------------------------------------------------------------
(* What the properties below are stated with: the source data a quad is    *)
(* compared to, written out from the mesh and not through the operators of *)
(* the script.                                                             *)

IsQuadFace(f) == Len(f.vertices) = 4

\* The faces of four vertices, in face order.
QuadFaces == SelectSeq(polygons, IsQuadFace)

\* The name a face's slot stands for.
SlotName(f) ==
    IF MaterialSlots[f.material_index + 1] = None THEN "none"
    ELSE MaterialSlots[f.material_index + 1].name

NoDuplicates(s) == \A i, j \in 1..Len(s) : s[i] = s[j] => i = j

\* The distinct elements of s in the order of their first occurrence.
RECURSIVE FirstSeen(_)
FirstSeen(s) ==
    IF s = << >> THEN << >>
    ELSE LET init == FirstSeen(SubSeq(s, 1, Len(s) - 1))
         IN  IF s[Len(s)] \in Elems(init) THEN init
             ELSE Append(init, s[Len(s)])

Corner(q, k) ==
    CASE k = 0 -> q.Vert0 [] k = 1 -> q.Vert1 [] k = 2 -> q.Vert2
      [] k = 3 -> q.Vert3

\* out is a multiple of 10^-digits closest to v.
Nearest(out, v, digits) ==
    /\ out % Pow10(PosDigits + 1 - digits) = 0
    /\ 2 * Abs(out - v) <= Pow10(PosDigits + 1 - digits)

Representable(v, digits) == v % Pow10(PosDigits + 1 - digits) = 0

\* The position of the k-th corner of face f, and its UV coordinate.
SourceCo(f, k) == MeshVertices[f.vertices[k + 1] + 1]
SourceUv(f, k) == uv_active.data[f.loop_indices[k + 1] + 1]

\* Quad q holds, corner by corner, the data of face f in f's own order.
BuiltFrom(q, f) ==
    /\ Len(f.vertices) = 4
    /\ Len(f.loop_indices) >= 4
    /\ \A k \in 0..3 :
         /\ Nearest(Corner(q, k).X, SourceCo(f, k).x, PosDigits)
         /\ Nearest(Corner(q, k).Y, SourceCo(f, k).z, PosDigits)
         /\ Nearest(Corner(q, k).Z, SourceCo(f, k).y, PosDigits)
         /\ Nearest(Corner(q, k).U, Abs(Unit - SourceUv(f, k).x), UvDigits)
         /\ Nearest(Corner(q, k).V, SourceUv(f, k).y, UvDigits)

Unwritten == disk \in {"absent", "old"}
Extracted == pc \in {"open", "write", "close", "done"}

-----------------------------------------------------------------------------
\* C1: a mesh with a face of other than four vertices is never exported:
\* the script does not end normally and no output file is created or written.
C1_NonQuadAborts ==
    (\E i \in 1..Len(polygons) : ~IsQuadFace(polygons[i]))
        => (Unwritten /\ pc # "done")

\* C2: after every prefix of the faces, and in the serialised Model,
\* TextureNames holds no name twice and every quad's TextureId is an index
\* into it.
C2_TextureTable ==
    /\ NoDuplicates(tex_names)
    /\ \A i \in 1..Len(quads) :
         quads[i].TextureId >= 0 /\ quads[i].TextureId < Len(tex_names)
    /\ NoDuplicates(json.TextureNames)
    /\ \A i \in 1..Len(json.Quads) :
         /\ json.Quads[i].TextureId >= 0
         /\ json.Quads[i].TextureId < Len(json.TextureNames)

\* C2's case: a written document of three quads over two names, so that one
\* insertion found its name in the table.
C2_Witness ==
    /\ pc = "done"
    /\ Len(json.Quads) = 3
    /\ Len(json.TextureNames) = 2

\* C3: the TextureId of every emitted quad leads to the name of its face's
\* material, or to "none" for an empty slot; faces of one material share one
\* TextureId, and the name is in TextureNames once.
C3_TextureIdResolves ==
    /\ Len(quads) <= Len(QuadFaces)
    /\ \A i \in 1..Len(quads) :
         /\ quads[i].TextureId + 1 \in 1..Len(tex_names)
         /\ tex_names[quads[i].TextureId + 1] = SlotName(QuadFaces[i])
         /\ Cardinality({ k \in 1..Len(tex_names) :
                            tex_names[k] = SlotName(QuadFaces[i]) }) = 1
    /\ \A i, j \in 1..Len(quads) :
         SlotName(QuadFaces[i]) = SlotName(QuadFaces[j])
            => quads[i].TextureId = quads[j].TextureId

\* C3's case: three quads, of "stone", of the empty slot and of a second
\* slot holding "stone": the third shares the first one's TextureId.
C3_Witness ==
    /\ Len(quads) = 3
    /\ Len(polygons) = 3
    /\ polygons[1].material_index = 0
    /\ MaterialSlots[polygons[2].material_index + 1] = None
    /\ polygons[3].material_index = 3
    /\ tex_names = << "stone", "none" >>
    /\ quads[3].TextureId = quads[1].TextureId

\* C4: the final TextureNames is the list of the distinct material names of
\* the mesh's faces ("none" for an empty slot) in first-seen order.
C4_FirstSeenOrder ==
    Extracted =>
        json.TextureNames =
            FirstSeen([i \in 1..Len(polygons) |-> SlotName(polygons[i])])

\* C5: the i-th quad is built from the i-th face of the mesh, its corners in
\* the face's own order.
C5_FaceOrder ==
    /\ Len(quads) <= Len(polygons)
    /\ \A i \in 1..Len(quads) : BuiltFrom(quads[i], polygons[i])

\* C6: once the loop has taken a face whose vertex list and loop list
\* differ in length, the export has failed and has written nothing.
C6_MisalignedFaceFails ==
    (\E i \in 1..face_i :
        Len(polygons[i].vertices) # Len(polygons[i].loop_indices))
        => (pc = "failed" /\ Unwritten)

\* C7: a mesh without an active UV layer is never exported: the script does
\* not end normally and no output file is created or written.
C7_NoUvLayerFails ==
    ~uv_active.present => (Unwritten /\ pc # "done")

\* C8: a run that ended in an exception leaves no empty or partial file at
\* the destination and no file object open.
C8_NoPartialFile ==
    pc = "failed" => (disk \notin {"empty", "partial"} /\ file # "open")

\* C9: every corner of every emitted quad has X from the source x, Y from
\* the source z and Z from the source y, each the closest value of five
\* decimal digits, and the source value itself when that has five digits.
C9_AxisSwap ==
    /\ Len(quads) <= Len(QuadFaces)
    /\ \A i \in 1..Len(quads) : \A k \in 0..3 :
         /\ Nearest(Corner(quads[i], k).X, SourceCo(QuadFaces[i], k).x,
                    PosDigits)
         /\ Nearest(Corner(quads[i], k).Y, SourceCo(QuadFaces[i], k).z,
                    PosDigits)
         /\ Nearest(Corner(quads[i], k).Z, SourceCo(QuadFaces[i], k).y,
                    PosDigits)
         /\ Representable(SourceCo(QuadFaces[i], k).x, PosDigits)
              => Corner(quads[i], k).X = SourceCo(QuadFaces[i], k).x
         /\ Representable(SourceCo(QuadFaces[i], k).z, PosDigits)
              => Corner(quads[i], k).Y = SourceCo(QuadFaces[i], k).z
         /\ Representable(SourceCo(QuadFaces[i], k).y, PosDigits)
              => Corner(quads[i], k).Z = SourceCo(QuadFaces[i], k).y

\* C9's case: an emitted quad with a corner whose y and z differ and have
\* five digits, and a corner whose y and z have a sixth digit.
C9_Witness ==
    \E i \in 1..Len(quads) : \E k, m \in 0..3 :
        /\ SourceCo(QuadFaces[i], k).y # SourceCo(QuadFaces[i], k).z
        /\ Representable(SourceCo(QuadFaces[i], k).y, PosDigits)
        /\ Representable(SourceCo(QuadFaces[i], k).z, PosDigits)
        /\ Corner(quads[i], k).Y = SourceCo(QuadFaces[i], k).z
        /\ ~Representable(SourceCo(QuadFaces[i], m).y, PosDigits)
        /\ ~Representable(SourceCo(QuadFaces[i], m).z, PosDigits)
        /\ Corner(quads[i], m).Y # SourceCo(QuadFaces[i], m).z

\* C10: every emitted vertex has U = |1 - u| and V = v of its loop's UV
\* coordinate, each the closest value of four decimal digits, and U lies in
\* [0, 1] whenever u does.
C10_UvFlip ==
    /\ Len(quads) <= Len(QuadFaces)
    /\ \A i \in 1..Len(quads) : \A k \in 0..3 :
         /\ Nearest(Corner(quads[i], k).U,
                    Abs(Unit - SourceUv(QuadFaces[i], k).x), UvDigits)
         /\ Nearest(Corner(quads[i], k).V, SourceUv(QuadFaces[i], k).y,
                    UvDigits)
         /\ (SourceUv(QuadFaces[i], k).x >= 0
             /\ SourceUv(QuadFaces[i], k).x <= Unit)
              => (Corner(quads[i], k).U >= 0 /\ Corner(quads[i], k).U <= Unit)

\* C10's case: an emitted quad with a corner whose u is above 1 (the
\* absolute value acts) and a corner whose u is inside [0, 1] with more than
\* four digits (the rounding acts).
C10_Witness ==
    \E i \in 1..Len(quads) : \E k, m \in 0..3 :
        /\ SourceUv(QuadFaces[i], k).x > Unit
        /\ Corner(quads[i], k).U > 0
        /\ SourceUv(QuadFaces[i], m).x > 0
        /\ SourceUv(QuadFaces[i], m).x < Unit
        /\ ~Representable(SourceUv(QuadFaces[i], m).x, UvDigits)
        /\ Corner(quads[i], m).U >= 0
        /\ Corner(quads[i], m).U <= Unit

-----------------------------------------------------------------------------
(* What the script keeps of C4 and C5, over the faces it does not skip.    *)

IsPrefix(s, t) == Len(s) <= Len(t) /\ SubSeq(t, 1, Len(s)) = s

\* tex_names only grows at its end: no name is removed or moved.
TexNamesAppendOnly == [][IsPrefix(tex_names, tex_names')]_vars

\* The final TextureNames is the first-seen list of the names of the
\* four-vertex faces.
FirstSeenOfQuadFaces ==
    Extracted =>
        json.TextureNames =
            FirstSeen([i \in 1..Len(QuadFaces) |-> SlotName(QuadFaces[i])])

\* The i-th quad is built from the i-th four-vertex face, corner by corner.
QuadFaceOrder ==
    /\ Len(quads) <= Len(QuadFaces)
    /\ \A i \in 1..Len(quads) : BuiltFrom(quads[i], QuadFaces[i])

====
